---- MODULE Spec2Model ----
(***************************************************************************)
(* Model of backend/ai-trust-score.py: the trust score engine              *)
(* (calculate_time_decay, analyze_sentiment, calculate_trust_score), the   *)
(* review merge of get_trust_score, the per-review analysis of             *)
(* analyze_reviews and the cache protocol of get_trust_score.              *)
(*                                                                         *)
(* Numbers.  A Python float x is represented by the integer floor(x*Milli) *)
(* (three decimals).  math.exp keeps the two properties of the IEEE double *)
(* that the handlers can observe: it raises OverflowError above            *)
(* ln(DBL_MAX) and returns 0.0 below the underflow threshold.  inf and nan *)
(* are not represented: the review pools stay clear of the arguments that  *)
(* produce them.                                                           *)
(*                                                                         *)
(* Time.  The clock and the review timestamps count hours (3600 s), so     *)
(* TIME_UNIT (2592000 s) is 720 and CACHE_TTL (3600 s) is 1.               *)
(***************************************************************************)
EXTENDS Integers, Sequences, FiniteSets, TLC

VARIABLES
    clock,                \* time.time(), in hours
    sentiment_analyzer,   \* module global: TRUE when the pipeline loaded (line 69), FALSE for None (line 77)
    reviews,              \* argument of the engine operation under check
    pc,                   \* "start", "returned" or "raised"
    op,                   \* which operation ran: "none", "score", "analyze"
    reads,                \* the clock values the operation read, in order
    result,               \* the value the operation returned
    error,                \* the exception that left the operation, "none" if none
    sentiment_calls,      \* indices of the reviews whose comment was passed to analyze_sentiment, in call order
    decay_calls,          \* number of calculate_time_decay calls made
    blockchain_reviews,   \* what fetch_blockchain_reviews handed to the handler
    api_reviews,          \* what fetch_api_reviews handed to the handler
    combined_reviews,     \* get_trust_score's merged list
    analysis_out,         \* analyze_reviews' response
    merged_done,          \* the merge ran
    analysis_done,        \* the analysis ran
    required_api_key,     \* os.getenv("REQUIRED_API_KEY"): "none" when unset
    USE_REDIS,            \* line 60 / 64
    cache,                \* redis: address -> Absent or [value, expires]
    pending,              \* address -> number of get_trust_score requests suspended at the awaits of lines 328-329
    response,             \* the last response sent
    last_computed         \* history: address -> the last value get_trust_score computed for it

engine_vars == <<reviews, pc, op, reads, result, error, sentiment_calls, decay_calls>>
merge_vars == <<blockchain_reviews, api_reviews, combined_reviews, analysis_out, merged_done, analysis_done>>
api_vars == <<required_api_key, USE_REDIS, cache, pending, response, last_computed>>
vars == <<clock, sentiment_analyzer, engine_vars, merge_vars, api_vars>>

---------------------------------------------------------------------------
(* Numeric representation *)

Milli == 10 * 10 * 10

Min(a, b) == IF a < b THEN a ELSE b
Max(a, b) == IF a > b THEN a ELSE b

\* a * b of two Milli-scaled floats
Mul(a, b) == (a * b) \div Milli

\* Python round(x, ndigits): to the nearest multiple of unit, ties to even.
Round(v, unit) ==
    LET q == v \div unit
        r == v % unit
    IN  IF 2 * r < unit THEN q * unit
        ELSE IF 2 * r > unit THEN (q + 1) * unit
        ELSE IF q % 2 = 0 THEN q * unit ELSE (q + 1) * unit

Centi == 10     \* round(x, 2) of a Milli-scaled value
Deci == 100     \* round(x, 1)

---------------------------------------------------------------------------
(* Configuration, lines 96-102 (the defaults of the os.getenv calls) *)

TIME_DECAY_FACTOR == 50            \* 0.05
TIME_UNIT == 720                   \* 60 * 60 * 24 * 30 s, in hours
SENTIMENT_WEIGHT == 300            \* 0.3
VERIFIED_CLIENT_WEIGHT == 1500     \* 1.5
UNVERIFIED_CLIENT_WEIGHT == 800    \* 0.8
CACHE_TTL == 1                     \* 3600 s, in hours

---------------------------------------------------------------------------
(* math.exp, line 215 *)

ExpOverflowArg == 709782      \* math.exp(x) raises OverflowError for x > 709.782...
ExpUnderflowArg == -745133    \* math.exp(x) is 0.0 for x < -745.133...
E_MILLI == 2718               \* e
INV_E_MILLI == 368            \* 1/e

RECURSIVE ExpSeries(_, _, _)
\* sum of the Taylor terms f^k/k! from term k on, f in [0, 1)
ExpSeries(f, term, k) ==
    IF term = 0 THEN 0
    ELSE term + ExpSeries(f, (term * f) \div (k * Milli), k + 1)

RECURSIVE ExpScale(_, _)
\* v * e^n
ExpScale(v, n) ==
    IF n = 0 \/ v = 0 THEN v
    ELSE IF n > 0 THEN ExpScale((v * E_MILLI) \div Milli, n - 1)
    ELSE ExpScale((v * INV_E_MILLI) \div Milli, n + 1)

MathExpRaises(x) == x > ExpOverflowArg

MathExp(x) ==
    IF x < ExpUnderflowArg THEN 0
    ELSE ExpScale(ExpSeries(x % Milli, Milli, 1), x \div Milli)

---------------------------------------------------------------------------
(* calculate_time_decay, lines 205-217.  current_time is the value         *)
(* int(time.time()) returned to this call.                                 *)

DecayArg(timestamp, current_time) ==
    LET age_in_seconds == current_time - timestamp
        \* age_in_seconds / TIME_UNIT, Milli-scaled
        age_in_units == (age_in_seconds \div TIME_UNIT) * Milli
                        + ((age_in_seconds % TIME_UNIT) * Milli) \div TIME_UNIT
    IN  (-(TIME_DECAY_FACTOR * age_in_units)) \div Milli

DecayRaises(timestamp, current_time) == MathExpRaises(DecayArg(timestamp, current_time))

calculate_time_decay(timestamp, current_time) ==
    MathExp(DecayArg(timestamp, current_time))

---------------------------------------------------------------------------
(* The sentiment pipeline and analyze_sentiment, lines 178-202.            *)
(* Comments are short texts (text[:512] is the text itself): "great" and   *)
(* "awful" are classified, any other text makes the pipeline fail.         *)

\* sentiment_analyzer(truncated_text)[0]: a label and a score, or an exception
Pipeline(text) ==
    CASE text = "great" -> [label |-> "POSITIVE", score |-> Milli]
      [] text = "awful" -> [label |-> "NEGATIVE", score |-> Milli]
      [] OTHER -> [label |-> "EXCEPTION", score |-> 0]

analyze_sentiment(text, analyzer) ==
    IF ~analyzer \/ text = "" THEN 0
    ELSE LET res == Pipeline(text)
         IN  IF res.label = "EXCEPTION" THEN 0
             ELSE IF res.label = "POSITIVE" THEN res.score
             ELSE -res.score

---------------------------------------------------------------------------
(* Review, lines 105-110.  rating is validated to 1..5 at construction.    *)

Review(addr, verified, rating, comment, timestamp) ==
    [client_address |-> addr, client_verified |-> verified, rating |-> rating,
     comment |-> comment, timestamp |-> timestamp]

\* the clock when the checked operation starts
Now0 == 692 * TIME_UNIT

---------------------------------------------------------------------------
(* The clock values one operation reads.  The operation makes m reads;     *)
(* the clock may advance up to MaxTicks times while it runs, each advance  *)
(* falling before some read.                                               *)

MaxTicks == 1

ClockReads(c, m) ==
    { [k \in 1..m |-> c + Cardinality({t \in 1..MaxTicks : p[t] # 0 /\ p[t] <= k})] :
        p \in [1..MaxTicks -> 0..m] }

LastRead(c, rd) == IF rd = <<>> THEN c ELSE rd[Len(rd)]

---------------------------------------------------------------------------
(* calculate_trust_score, lines 220-290.  rd[k] is the clock read by the   *)
(* k-th calculate_time_decay call (n calls in the loop of line 243, n in   *)
(* the sum of line 280); the last read is datetime.now().                  *)

ClientWeight(review) ==
    IF review.client_verified THEN VERIFIED_CLIENT_WEIGHT ELSE UNVERIFIED_CLIENT_WEIGHT

ScoreReadCount(rs) == 2 * Len(rs) + 1

\* the review whose timestamp the j-th decay call of calculate_trust_score gets
ScoreReadReview(rs, j) == rs[((j - 1) % Len(rs)) + 1]

\* index of the first calculate_time_decay call that raises, 0 when none does
ScoreRaiseAt(rs, rd) ==
    LET bad == {j \in 1..(2 * Len(rs)) : DecayRaises(ScoreReadReview(rs, j).timestamp, rd[j])}
    IN  IF bad = {} THEN 0 ELSE CHOOSE j \in bad : \A i \in bad : j <= i

\* lines 255-258: the loop passes a comment to analyze_sentiment only if it is non-empty
ScoreCallsSentiment(review) == review.comment # ""
ScoreSentiment(review, analyzer) ==
    IF ScoreCallsSentiment(review) THEN analyze_sentiment(review.comment, analyzer) ELSE 0

RECURSIVE ScoreLoop(_, _, _, _)
\* lines 239-258 over reviews 1..k
ScoreLoop(rs, rd, analyzer, k) ==
    IF k = 0 THEN [weighted_sum |-> 0, weight_sum |-> 0, sentiment_sum |-> 0]
    ELSE LET acc == ScoreLoop(rs, rd, analyzer, k - 1)
             review == rs[k]
             time_weight == calculate_time_decay(review.timestamp, rd[k])
             client_weight == ClientWeight(review)
             total_weight == Mul(time_weight, client_weight)
             sentiment_score == ScoreSentiment(review, analyzer)
         IN  [weighted_sum |-> acc.weighted_sum + review.rating * total_weight,
              weight_sum |-> acc.weight_sum + total_weight,
              sentiment_sum |-> acc.sentiment_sum + Mul(sentiment_score, total_weight)]

RECURSIVE RecencySumWeighted(_, _, _)
RecencySumWeighted(rs, rd, k) ==
    IF k = 0 THEN 0
    ELSE RecencySumWeighted(rs, rd, k - 1)
         + Mul(calculate_time_decay(rs[k].timestamp, rd[Len(rs) + k]), ClientWeight(rs[k]))

RECURSIVE RecencySum(_, _, _)
\* line 280: sum(calculate_time_decay(r.timestamp) for r in reviews), reviews 1..k
RecencySum(rs, rd, k) ==
    IF k = 0 THEN 0
    ELSE RecencySum(rs, rd, k - 1) + calculate_time_decay(rs[k].timestamp, rd[Len(rs) + k])

\* line 270
AdjustedRatingUnclamped(weighted_rating, sentiment_adjustment) ==
    weighted_rating + sentiment_adjustment
AdjustedRating(weighted_rating, sentiment_adjustment) ==
    Min(5 * Milli, Max(1 * Milli, weighted_rating + sentiment_adjustment))

\* line 277
Confidence(n) == Min(Milli, (n * Milli) \div 10)

\* lines 228-237
EmptyScoreSkewed(now) ==
    [score |-> 0, confidence |-> 0, review_count |-> 0, average_rating |-> 0,
     sentiment_adjustment |-> 0, recency_factor |-> 1 * Milli, calculation_time |-> now]
EmptyScore(now) ==
    [score |-> 50 * Milli, confidence |-> 0, review_count |-> 0, average_rating |-> 0,
     sentiment_adjustment |-> 0, recency_factor |-> 1 * Milli, calculation_time |-> now]

calculate_trust_score(rs, rd, analyzer) ==
    IF rs = <<>> THEN EmptyScore(rd[1])
    ELSE LET n == Len(rs)
             acc == ScoreLoop(rs, rd, analyzer, n)
             weighted_rating ==
                 IF acc.weight_sum > 0 THEN (acc.weighted_sum * Milli) \div acc.weight_sum
                 ELSE 3 * Milli
             average_sentiment ==
                 IF acc.weight_sum > 0 THEN (acc.sentiment_sum * Milli) \div acc.weight_sum
                 ELSE 0
             sentiment_adjustment == Mul(average_sentiment, SENTIMENT_WEIGHT)
             adjusted_rating == AdjustedRating(weighted_rating, sentiment_adjustment)
             trust_score == (adjusted_rating - 1 * Milli) * 25
             confidence == Confidence(n)
             avg_decay == RecencySum(rs, rd, n) \div n
         IN  [score |-> Round(trust_score, Deci),
              confidence |-> Round(confidence, Centi),
              review_count |-> n,
              average_rating |-> Round(weighted_rating, Centi),
              sentiment_adjustment |-> Round(sentiment_adjustment, Centi),
              recency_factor |-> Round(avg_decay, Centi),
              calculation_time |-> rd[2 * n + 1]]

\* the analyze_sentiment calls of a calculate_trust_score run whose loop got through reviews 1..k
ScoreSentimentCalls(rs, k) ==
    SelectSeq([i \in 1..k |-> i], LAMBDA i : ScoreCallsSentiment(rs[i]))

NoResult == [none |-> TRUE]

---------------------------------------------------------------------------
(* The review merge of get_trust_score, lines 331-344, and the             *)
(* concatenation of analyze_reviews, line 382.                             *)

RECURSIVE AddApiReviewsUnseen(_, _, _)
AddApiReviewsUnseen(combined, seen_clients, api) ==
    IF api = <<>> THEN combined
    ELSE LET review == Head(api)
         IN  IF review.client_address \notin seen_clients
             THEN AddApiReviewsUnseen(Append(combined, review), seen_clients, Tail(api))
             ELSE AddApiReviewsUnseen(combined, seen_clients, Tail(api))

RECURSIVE AddApiReviews(_, _, _)
\* lines 341-344
AddApiReviews(combined, seen_clients, api) ==
    IF api = <<>> THEN combined
    ELSE LET review == Head(api)
         IN  IF review.client_address \notin seen_clients
             THEN AddApiReviews(Append(combined, review),
                                seen_clients \cup {review.client_address}, Tail(api))
             ELSE AddApiReviews(combined, seen_clients, Tail(api))

\* lines 332-344: every blockchain review is appended and its client recorded (336-338)
CombineReviews(blockchain, api) ==
    AddApiReviews(blockchain, {blockchain[i].client_address : i \in DOMAIN blockchain}, api)

\* line 382
AnalysisInputDeduped(blockchain, api) == CombineReviews(blockchain, api)
AnalysisInput(blockchain, api) == blockchain \o api

---------------------------------------------------------------------------
(* The analysis of analyze_reviews, lines 384-424.  rd[k] is the clock     *)
(* read by the calculate_time_decay call of review k (line 391).           *)

DatetimeMin == -17259888     \* datetime.min (year 1), in hours since the epoch
DatetimeMax == 70389527      \* datetime.max (year 9999)

\* datetime.fromtimestamp, line 399
FromTimestampRaises(timestamp) == timestamp < DatetimeMin \/ timestamp > DatetimeMax
FromTimestamp(timestamp) == [day |-> timestamp \div 24, hour |-> timestamp % 24]

\* lines 390-406
AnalyzedReview(review, now, analyzer) ==
    LET sentiment_score == analyze_sentiment(review.comment, analyzer)
        time_decay == calculate_time_decay(review.timestamp, now)
    IN  [client_address |-> review.client_address,
         client_verified |-> review.client_verified,
         rating |-> review.rating,
         comment |-> review.comment,
         timestamp |-> review.timestamp,
         datetime |-> FromTimestamp(review.timestamp),
         sentiment_score |-> Round(sentiment_score, Centi),
         time_decay_factor |-> Round(time_decay, Centi),
         effective_weight |-> Round(Mul(time_decay, ClientWeight(review)), Centi)]

\* index of the first review whose iteration raises, 0 when none does
AnalyzeRaiseAt(rs, rd) ==
    LET bad == {k \in 1..Len(rs) : \/ DecayRaises(rs[k].timestamp, rd[k])
                                    \/ FromTimestampRaises(rs[k].timestamp)}
    IN  IF bad = {} THEN 0 ELSE CHOOSE k \in bad : \A i \in bad : k <= i

AnalyzeError(rs, rd, k) ==
    IF DecayRaises(rs[k].timestamp, rd[k]) THEN "OverflowError" ELSE "ValueError"

RECURSIVE SumRating(_, _)
SumRating(rs, k) == IF k = 0 THEN 0 ELSE SumRating(rs, k - 1) + rs[k].rating

RECURSIVE SumSentiment(_, _, _)
SumSentiment(rs, analyzer, k) ==
    IF k = 0 THEN 0
    ELSE SumSentiment(rs, analyzer, k - 1) + analyze_sentiment(rs[k].comment, analyzer)

EmptyDict == [k \in {} |-> 0]

\* lines 384-424
AnalyzeCombined(address, rs, rd, analyzer) ==
    IF rs = <<>> THEN [address |-> address, reviews |-> <<>>, analysis |-> EmptyDict]
    ELSE LET n == Len(rs)
             avg_rating == (SumRating(rs, n) * Milli) \div n
             avg_sentiment == SumSentiment(rs, analyzer, n) \div n
             verified == Cardinality({k \in 1..n : rs[k].client_verified})
         IN  [address |-> address,
              reviews |-> [k \in 1..n |-> AnalyzedReview(rs[k], rd[k], analyzer)],
              analysis |->
                  [review_count |-> n,
                   average_rating |-> Round(avg_rating, Centi),
                   average_sentiment |-> Round(avg_sentiment, Centi),
                   verified_client_percentage |-> Round(((verified * Milli) \div n) * 100, Deci)]]

\* the analyze_sentiment calls of an analysis: line 390 for reviews 1..k, then, when
\* the loop finished, line 410 for every review again
AnalyzeSentimentCalls(rs, k, finished) ==
    [i \in 1..k |-> i] \o (IF finished THEN [i \in 1..Len(rs) |-> i] ELSE <<>>)

---------------------------------------------------------------------------
(* Engine specification: one call of calculate_trust_score, or one run of  *)
(* the analysis of analyze_reviews, on a drawn review list.                *)

MaxLen == 2        \* lists of up to MaxLen reviews drawn freely from EnginePool
MaxRepeat == 11    \* lists of up to MaxRepeat copies of one review of LongPool

EngineTimestamps ==
    {Now0,                          \* stamped now
     Now0 - TIME_UNIT,              \* one unit old
     Now0 - 120 * TIME_UNIT,        \* ten years old
     Now0 + 6 * TIME_UNIT,          \* half a year ahead
     Now0 + 15000 * TIME_UNIT,      \* exp argument 750: above the overflow threshold
     Now0 - 15000 * TIME_UNIT,      \* exp argument -750: below the underflow threshold
     Now0 - 25000 * TIME_UNIT}      \* before datetime.min

EnginePool ==
    {Review("x", TRUE, 5, "great", t) : t \in EngineTimestamps}
    \cup {Review("x", FALSE, 1, "awful", t) : t \in EngineTimestamps}
    \cup {Review("x", FALSE, 3, "", t) : t \in EngineTimestamps}
    \cup {Review("x", TRUE, 3, "boom", Now0 - TIME_UNIT)}

LongPool ==
    {Review("x", TRUE, 5, "great", Now0 + 6 * TIME_UNIT),
     Review("x", FALSE, 1, "awful", Now0 - TIME_UNIT),
     Review("x", FALSE, 3, "", Now0)}

SeqsUpTo(S, n) == UNION {[1..k -> S] : k \in 0..n}

EngineInputs ==
    SeqsUpTo(EnginePool, MaxLen)
    \cup {[i \in 1..k |-> r] : k \in (MaxLen + 1)..MaxRepeat, r \in LongPool}

MergeIdle ==
    /\ blockchain_reviews = <<>>
    /\ api_reviews = <<>>
    /\ combined_reviews = <<>>
    /\ analysis_out = NoResult
    /\ merged_done = FALSE
    /\ analysis_done = FALSE

ApiIdle ==
    /\ required_api_key = "none"
    /\ USE_REDIS = FALSE
    /\ cache = <<>>
    /\ pending = <<>>
    /\ response = NoResult
    /\ last_computed = <<>>

EngineIdle ==
    /\ reviews = <<>>
    /\ pc = "start"
    /\ op = "none"
    /\ reads = <<>>
    /\ result = NoResult
    /\ error = "none"
    /\ sentiment_calls = <<>>
    /\ decay_calls = 0

Init ==
    /\ clock = Now0
    /\ sentiment_analyzer \in BOOLEAN
    /\ reviews \in EngineInputs
    /\ pc = "start"
    /\ op = "none"
    /\ reads = <<>>
    /\ result = NoResult
    /\ error = "none"
    /\ sentiment_calls = <<>>
    /\ decay_calls = 0
    /\ MergeIdle
    /\ ApiIdle

\* calculate_trust_score(reviews), lines 220-290
CalculateTrustScore ==
    /\ pc = "start"
    /\ \E rd \in ClockReads(clock, ScoreReadCount(reviews)) :
        LET n == Len(reviews)
            j == IF n = 0 THEN 0 ELSE ScoreRaiseAt(reviews, rd)
        IN  /\ op' = "score"
            /\ IF j = 0
               THEN /\ pc' = "returned"
                    /\ reads' = rd
                    /\ result' = calculate_trust_score(reviews, rd, sentiment_analyzer)
                    /\ error' = "none"
                    /\ sentiment_calls' = ScoreSentimentCalls(reviews, n)
                    /\ decay_calls' = 2 * n
               ELSE /\ pc' = "raised"
                    /\ reads' = SubSeq(rd, 1, j)
                    /\ result' = NoResult
                    /\ error' = "OverflowError"
                    /\ sentiment_calls' = ScoreSentimentCalls(reviews, Min(n, j - 1))
                    /\ decay_calls' = j
            /\ clock' = LastRead(clock, reads')
    /\ UNCHANGED <<sentiment_analyzer, reviews, merge_vars, api_vars>>

\* the analysis of analyze_reviews on combined_reviews = reviews, lines 384-424
AnalyzeReviews ==
    /\ pc = "start"
    /\ \E rd \in ClockReads(clock, Len(reviews)) :
        LET n == Len(reviews)
            k == AnalyzeRaiseAt(reviews, rd)
        IN  /\ op' = "analyze"
            /\ IF k = 0
               THEN /\ pc' = "returned"
                    /\ reads' = rd
                    /\ result' = AnalyzeCombined("subject", reviews, rd, sentiment_analyzer)
                    /\ error' = "none"
                    /\ sentiment_calls' = AnalyzeSentimentCalls(reviews, n, n > 0)
                    /\ decay_calls' = n
               ELSE /\ pc' = "raised"
                    /\ reads' = SubSeq(rd, 1, k)
                    /\ result' = NoResult
                    /\ error' = AnalyzeError(reviews, rd, k)
                    /\ sentiment_calls' = AnalyzeSentimentCalls(reviews, k, FALSE)
                    /\ decay_calls' = IF n = 0 THEN 0 ELSE k
            /\ clock' = LastRead(clock, reads')
    /\ UNCHANGED <<sentiment_analyzer, reviews, merge_vars, api_vars>>

Next == CalculateTrustScore \/ AnalyzeReviews

Spec == Init /\ [][Next]_vars

---------------------------------------------------------------------------
(* Claims about the engine, checked under Spec                             *)

ScoreReturned == op = "score" /\ pc = "returned"

\* C1: for every non-empty list of valid reviews, whatever the timestamps (future ones
\* included), the verified flags and the polarities, the score calculate_trust_score
\* returns lies in [0, 100] and the confidence in [0, 1].
C1_ScoreAndConfidenceBounded ==
    (ScoreReturned /\ reviews # <<>>) =>
        /\ 0 <= result.score /\ result.score <= 100 * Milli
        /\ 0 <= result.confidence /\ result.confidence <= 1 * Milli

\* a list of more than ten reviews stamped in the future whose rating plus sentiment
\* adjustment exceeds 5: the clamp and the confidence cap both act
C1_Witness ==
    /\ ScoreReturned
    /\ Len(reviews) > 10
    /\ \A k \in 1..Len(reviews) : reviews[k].timestamp > clock
    /\ result.sentiment_adjustment > 0
    /\ result.average_rating = 5 * Milli
    /\ result.score = 100 * Milli
    /\ result.confidence = 1 * Milli

\* C2: on the empty list calculate_trust_score raises nothing and returns exactly
\* score 50, confidence 0, review_count 0, average_rating 0, sentiment_adjustment 0,
\* recency_factor 1, without calling the decay function or the sentiment adapter.
C2_EmptyIsNeutral ==
    (op = "score" /\ reviews = <<>>) =>
        /\ pc = "returned"
        /\ error = "none"
        /\ result.score = 50 * Milli
        /\ result.confidence = 0
        /\ result.review_count = 0
        /\ result.average_rating = 0
        /\ result.sentiment_adjustment = 0
        /\ result.recency_factor = 1 * Milli
        /\ decay_calls = 0
        /\ sentiment_calls = <<>>

C2_Witness == ScoreReturned /\ reviews = <<>> /\ result.review_count = 0

\* C5: calculate_trust_score and the analysis of analyze_reviews are total over
\* well-formed input: on every list of valid reviews, whatever the timestamps, each
\* returns a value and raises nothing.
C5_NeverRaises == pc # "raised" /\ error = "none"

\* C6: within one call of calculate_trust_score the decay weight of a review's score
\* contribution and its decay in recency_factor are computed from the same now (the
\* output is a function of the review list and one now).
C6_OneNowPerCall ==
    ScoreReturned => \A k \in 1..Len(reviews) : reads[k] = reads[Len(reviews) + k]

\* number of analyze_sentiment calls made for review i
SentimentCallCount(i) == Cardinality({c \in DOMAIN sentiment_calls : sentiment_calls[c] = i})

\* C7: in each engine operation analyze_sentiment is called exactly once for each
\* review whose comment is non-empty and not at all for a review whose comment is empty.
C7_OneCallPerComment ==
    pc = "returned" =>
        \A i \in 1..Len(reviews) :
            SentimentCallCount(i) = IF reviews[i].comment # "" THEN 1 ELSE 0

\* C8 as stated: recency_factor lies in (0, 1] and is 1.0 only for the empty list.
C8_RecencyInUnitInterval ==
    ScoreReturned =>
        /\ 0 < result.recency_factor /\ result.recency_factor <= 1 * Milli
        /\ (result.recency_factor = 1 * Milli => reviews = <<>>)

\* C8 amended: the recency_factor calculate_trust_score returns is never negative, is
\* at most 1 when no review is stamped later than the clock read for it, and is 1 for
\* the empty list.
C8_RecencyBounds ==
    ScoreReturned =>
        /\ 0 <= result.recency_factor
        /\ (\A k \in 1..Len(reviews) : reviews[k].timestamp <= reads[Len(reviews) + k])
               => result.recency_factor <= 1 * Milli
        /\ (reviews = <<>> => result.recency_factor = 1 * Milli)

\* a non-empty list of past reviews whose mean decay is strictly between 0 and 1
C8_Witness ==
    /\ ScoreReturned
    /\ Len(reviews) = 2
    /\ \A k \in 1..Len(reviews) : reviews[k].timestamp < reads[Len(reviews) + k]
    /\ 0 < result.recency_factor /\ result.recency_factor < 1 * Milli

---------------------------------------------------------------------------
(* Merge specification: get_trust_score and analyze_reviews, with no API   *)
(* key required and no cache, on the same two fetched review sequences.    *)
(* Lines 331-344 and 382 are functions of the two sequences and are        *)
(* checked as such: both sequences are drawn freely.  (The ledger query of *)
(* fetch_blockchain_reviews is not written yet, lines 132-139, so that the *)
(* deployed fetcher returns []; ApiSpec below keeps that.)  The clock      *)
(* stands still here and in ApiSpec's handlers: its advance within a call  *)
(* is the subject of Spec.                                                 *)

MaxFeed == 2       \* each source returns up to MaxFeed reviews

MergePool ==
    {Review("x", FALSE, 4, "great", Now0 - TIME_UNIT),
     Review("x", TRUE, 5, "", Now0),
     Review("y", FALSE, 2, "awful", Now0 - TIME_UNIT),
     Review("y", TRUE, 3, "", Now0)}

MergeInit ==
    /\ clock = Now0
    /\ sentiment_analyzer = TRUE
    /\ EngineIdle
    /\ blockchain_reviews \in SeqsUpTo(MergePool, MaxFeed)
    /\ api_reviews \in SeqsUpTo(MergePool, MaxFeed)
    /\ combined_reviews = <<>>
    /\ analysis_out = NoResult
    /\ merged_done = FALSE
    /\ analysis_done = FALSE
    /\ ApiIdle

WithAddress(trust_score, address) ==
    [k \in DOMAIN trust_score \cup {"address"} |->
        IF k = "address" THEN address ELSE trust_score[k]]

\* get_trust_score, lines 327-361, USE_REDIS false
ScoreFetched ==
    /\ ~merged_done
    /\ LET combined == CombineReviews(blockchain_reviews, api_reviews)
           rd == [k \in 1..ScoreReadCount(combined) |-> clock]
       IN  /\ combined_reviews' = combined
           /\ response' = WithAddress(
                  calculate_trust_score(combined, rd, sentiment_analyzer), "subject")
    /\ merged_done' = TRUE
    /\ UNCHANGED <<clock, sentiment_analyzer, engine_vars, blockchain_reviews, api_reviews,
                   analysis_out, analysis_done, required_api_key, USE_REDIS, cache,
                   pending, last_computed>>

\* analyze_reviews, lines 377-424
AnalyzeFetched ==
    /\ ~analysis_done
    /\ LET combined == AnalysisInput(blockchain_reviews, api_reviews)
           rd == [k \in 1..Len(combined) |-> clock]
       IN  analysis_out' = AnalyzeCombined("subject", combined, rd, sentiment_analyzer)
    /\ analysis_done' = TRUE
    /\ UNCHANGED <<clock, sentiment_analyzer, engine_vars, blockchain_reviews, api_reviews,
                   combined_reviews, merged_done, api_vars>>

MergeNext == ScoreFetched \/ AnalyzeFetched

MergeSpec == MergeInit /\ [][MergeNext]_vars

---------------------------------------------------------------------------
(* Claims about the merge, checked under MergeSpec                         *)

ClientOf(rs) == {rs[i].client_address : i \in DOMAIN rs}

\* the reviews of rs at the indices of K, in the order of rs
Pick(rs, K) == LET idx == SelectSeq([i \in DOMAIN rs |-> i], LAMBDA i : i \in K)
               IN  [n \in DOMAIN idx |-> rs[idx[n]]]

\* the API reviews whose client occurs in no review placed earlier in the output
SurvivingApi ==
    {j \in DOMAIN api_reviews :
        /\ api_reviews[j].client_address \notin ClientOf(blockchain_reviews)
        /\ \A i \in 1..(j - 1) : api_reviews[i].client_address # api_reviews[j].client_address}

\* C3: the merge outputs every primary (blockchain) review unmodified in primary order,
\* followed by exactly those secondary (API) reviews, in secondary order, whose reviewer
\* occurs in no review placed earlier in the output.
C3_MergeKeepsPrimaryThenNewApi ==
    merged_done => combined_reviews = blockchain_reviews \o Pick(api_reviews, SurvivingApi)

\* primary = [A(x)], secondary = [B(x), C(y)] gives [A, C]
C3_Witness ==
    /\ merged_done
    /\ Len(blockchain_reviews) = 1 /\ Len(api_reviews) = 2
    /\ blockchain_reviews[1].client_address = "x"
    /\ api_reviews[1].client_address = "x" /\ api_reviews[1] # blockchain_reviews[1]
    /\ api_reviews[2].client_address = "y"
    /\ combined_reviews = <<blockchain_reviews[1], api_reviews[2]>>

EntryReview(e) == Review(e.client_address, e.client_verified, e.rating, e.comment, e.timestamp)

AnalysisListsConcatenation ==
    LET all == blockchain_reviews \o api_reviews
    IN  /\ Len(analysis_out.reviews) = Len(all)
        /\ \A k \in DOMAIN all : EntryReview(analysis_out.reviews[k]) = all[k]

CountOf(rs, c) == Cardinality({i \in DOMAIN rs : rs[i].client_address = c})

\* a reviewer with one review in each source is listed twice by analyze_reviews and
\* counted once by get_trust_score
DedupAsymmetry ==
    (analysis_done /\ merged_done) =>
        \A c \in ClientOf(blockchain_reviews) \cap ClientOf(api_reviews) :
            (CountOf(blockchain_reviews, c) = 1 /\ CountOf(api_reviews, c) = 1) =>
                /\ CountOf(analysis_out.reviews, c) = 2
                /\ CountOf(combined_reviews, c) = 1

\* C9 as stated: analyze_reviews lists one analyzed entry per element of primary
\* followed by secondary, in that order, and its review_count is
\* len(primary) + len(secondary), for all primary and secondary sequences.
C9_AnalysisCountsEveryReview ==
    analysis_done =>
        /\ AnalysisListsConcatenation
        /\ "review_count" \in DOMAIN analysis_out.analysis
        /\ analysis_out.analysis.review_count = Len(blockchain_reviews) + Len(api_reviews)

\* C9 amended: analyze_reviews lists one analyzed entry per element of primary followed
\* by secondary, in that order; when that concatenation is non-empty its review_count
\* is len(primary) + len(secondary), and when it is empty the analysis object is empty
\* and carries no review_count; a reviewer with one review in each source is listed
\* twice there and counted once by get_trust_score.
C9_AnalysisKeepsDuplicates ==
    /\ analysis_done =>
        /\ AnalysisListsConcatenation
        /\ IF Len(blockchain_reviews) + Len(api_reviews) > 0
           THEN /\ "review_count" \in DOMAIN analysis_out.analysis
                /\ analysis_out.analysis.review_count
                       = Len(blockchain_reviews) + Len(api_reviews)
           ELSE analysis_out.analysis = EmptyDict
    /\ DedupAsymmetry

C9_Witness ==
    /\ analysis_done /\ merged_done
    /\ Len(blockchain_reviews) = 1 /\ Len(api_reviews) = 1
    /\ blockchain_reviews[1].client_address = api_reviews[1].client_address
    /\ analysis_out.analysis.review_count = 2
    /\ response.review_count = 1

---------------------------------------------------------------------------
(* Cache specification: get_trust_score requests against redis.  A request *)
(* runs lines 315-325 when it arrives and, unless it was answered there,   *)
(* is suspended at the awaits of lines 328-329; lines 331-361 run in one   *)
(* piece when the fetches complete.  redis drops an entry CACHE_TTL after  *)
(* it was set.                                                             *)

MaxInFlight == 2   \* requests suspended at once
MaxClock == 2      \* hours the clock advances

Addresses == {"a1", "a2"}
ApiKeys == {"none", "secret", "wrong"}     \* the api_key header, "none" when absent

\* what the REST source may answer: nothing, one review, two reviews of one client,
\* a review stamped beyond the exp overflow threshold
ApiFeeds ==
    {<<>>,
     <<Review("x", TRUE, 5, "great", Now0)>>,
     <<Review("x", FALSE, 2, "awful", Now0 - TIME_UNIT), Review("x", TRUE, 5, "great", Now0)>>,
     <<Review("y", FALSE, 3, "", Now0 + 15000 * TIME_UNIT)>>}

\* fetch_blockchain_reviews, lines 127-145: the placeholder returns [] on every path
fetch_blockchain_reviews(address) == <<>>

\* json.dumps / json.loads of a trust score, lines 325 and 357
JsonDumps(value) == [json |-> value]
JsonLoads(text) == text.json

\* a missing key, and None
Absent == [absent |-> TRUE]

\* no response sent yet
NoResponse == [status |-> 0, address |-> "none", body |-> Absent]

\* redis_client.get, line 322: the value, None when the key is absent or expired
RedisGet(address) ==
    IF cache[address] # Absent /\ clock < cache[address].expires
    THEN cache[address].value ELSE Absent

\* lines 316-317
Unauthorized(api_key) == required_api_key # "none" /\ api_key # required_api_key

\* lines 321-323
CacheHitIgnoringForce(address, force_refresh) ==
    USE_REDIS /\ RedisGet(address) # Absent
CacheHit(address, force_refresh) ==
    USE_REDIS /\ ~force_refresh /\ RedisGet(address) # Absent

InFlight == pending["a1"] + pending["a2"]

ApiInit ==
    /\ clock = Now0
    /\ sentiment_analyzer = TRUE
    /\ EngineIdle
    /\ MergeIdle
    /\ required_api_key \in {"none", "secret"}
    /\ USE_REDIS \in BOOLEAN
    /\ cache = [a \in Addresses |-> Absent]
    /\ pending = [a \in Addresses |-> 0]
    /\ response = NoResponse
    /\ last_computed = [a \in Addresses |-> Absent]

\* get_trust_score, lines 315-328: up to the first await
Arrive(address, force_refresh, api_key) ==
    /\ InFlight < MaxInFlight
    /\ IF Unauthorized(api_key)
       THEN /\ response' = [status |-> 401, address |-> address,
                            body |-> [detail |-> "Invalid or missing API key"]]
            /\ UNCHANGED <<cache, pending>>
       ELSE IF CacheHit(address, force_refresh)
       THEN /\ response' = [status |-> 200, address |-> address,
                            body |-> JsonLoads(RedisGet(address))]
            /\ UNCHANGED <<cache, pending>>
       ELSE /\ pending' = [pending EXCEPT ![address] = @ + 1]
            /\ UNCHANGED <<cache, response>>
    /\ UNCHANGED <<clock, sentiment_analyzer, engine_vars, merge_vars,
                   required_api_key, USE_REDIS, last_computed>>

\* get_trust_score, lines 328-361: the fetches answer, the rest runs
Complete(address) ==
    /\ pending[address] > 0
    /\ pending' = [pending EXCEPT ![address] = @ - 1]
    /\ \E api \in ApiFeeds :
        LET combined == CombineReviews(fetch_blockchain_reviews(address), api)
            rd == [k \in 1..ScoreReadCount(combined) |-> clock]
        IN  IF combined # <<>> /\ ScoreRaiseAt(combined, rd) # 0
            THEN /\ response' = [status |-> 500, address |-> address,
                                 body |-> [detail |-> "Internal Server Error"]]
                 /\ UNCHANGED <<cache, last_computed>>
            ELSE LET trust_score ==
                         WithAddress(calculate_trust_score(combined, rd, sentiment_analyzer),
                                     address)
                 IN  /\ cache' = IF USE_REDIS
                                 THEN [cache EXCEPT ![address] =
                                          [value |-> JsonDumps(trust_score),
                                           expires |-> clock + CACHE_TTL]]
                                 ELSE cache
                     /\ response' = [status |-> 200, address |-> address, body |-> trust_score]
                     /\ last_computed' = [last_computed EXCEPT ![address] = trust_score]
    /\ UNCHANGED <<clock, sentiment_analyzer, engine_vars, merge_vars,
                   required_api_key, USE_REDIS>>

\* an hour passes; redis drops the entries whose TTL ran out
Tick ==
    /\ clock < Now0 + MaxClock
    /\ clock' = clock + 1
    /\ cache' = [a \in Addresses |->
                    IF cache[a] # Absent /\ clock + 1 >= cache[a].expires
                    THEN Absent ELSE cache[a]]
    /\ UNCHANGED <<sentiment_analyzer, engine_vars, merge_vars,
                   required_api_key, USE_REDIS, pending, response, last_computed>>

ApiNext ==
    \/ \E a \in Addresses, f \in BOOLEAN, k \in ApiKeys : Arrive(a, f, k)
    \/ \E a \in Addresses : Complete(a)
    \/ Tick

ApiSpec == ApiInit /\ [][ApiNext]_vars

---------------------------------------------------------------------------
(* Claim about the cache, checked under ApiSpec                            *)

\* what C10 says of a request answered on arrival
ArrivalAsClaimed(a, force_refresh, api_key) ==
    IF Unauthorized(api_key)
    THEN response'.status = 401 /\ cache' = cache /\ pending' = pending
    ELSE IF ~force_refresh /\ RedisGet(a) # Absent
    THEN /\ response' = [status |-> 200, address |-> a, body |-> JsonLoads(cache[a].value)]
         /\ cache' = cache /\ pending' = pending
    ELSE pending'[a] = pending[a] + 1 /\ cache' = cache

\* what C10 says of a request that had to fetch
CompletionAsClaimed(a) ==
    /\ cache'[a] # Absent
    /\ response'.address = a
    /\ cache'[a].value = JsonDumps(response'.body)
    /\ \A b \in Addresses \ {a} : cache'[b] = cache[b]

CompletionAlwaysOverwrites ==
    [][USE_REDIS => \A a \in Addresses : Complete(a) => CompletionAsClaimed(a)]_vars

====
